---- MODULE Spec2Model ----
(***************************************************************************)
(* Model of Falcor's Bloom post-process effect                             *)
(* (Framework/Source/Effects/Bloom/Bloom.cpp).                             *)
(*                                                                         *)
(* The object holds a low-res texture that is re-created on demand, a      *)
(* high-pass filter, a Gaussian blur, a full-screen blit pass with its     *)
(* program variables, and an additive blend state.  execute() is modelled  *)
(* statement by statement (pc is the position inside the call); renderUI() *)
(* is one action followed by its return.  The collaborators whose code is  *)
(* not part of Bloom.cpp (PassFilter, GaussianBlur, Gui, the GPU) are      *)
(* modelled by what Bloom.cpp passes to them and nondeterministic results. *)
(***************************************************************************)
EXTENDS Integers, Sequences, FiniteSets, TLC

\* ---------------------------------------------------------------- bounds
\* Number of Texture::create2D calls explored.
MaxCreated == 2
\* Colour values of a texel are 0..MaxColor (one representative RGB channel).
MaxColor == 1
\* Values a Gui widget can produce are 1..MaxUiVal.
MaxUiVal == 2

\* ------------------------------------------------------- program constants
\* max(pTexture->getHeight() / 4, 256u)
MinLowRes == 256
\* pTexture->getHeight() / 4
DownScale == 4

Null == "null"
\* A null Texture::SharedPtr, a null Fbo argument, no blur result.
NoTexture == [id |-> 0, width |-> 0, height |-> 0, format |-> Null]
NoFbo == [width |-> 0, height |-> 0, format |-> Null, rgb |-> 0]
NoBlur == [tex |-> Null, rgb |-> 0]

\* Sizes and formats of the colour texture 0 of the frame buffers passed in.
Widths == {256, 300, 1920}
Heights == {100, 256, 300, 1080}
Formats == {"RGBA8Unorm", "RGBA16Float"}
\* Textures PassFilter::execute may hand back (it owns them).
FilterTextures == {"hp1", "hp2"}
UiVals == 1..MaxUiVal
UiGroups == {Null, "Bloom"}

VARIABLES
    pc,                 \* position: "idle", a statement of execute, "uiReturn"
    mpLowResTexture,    \* NoTexture or [id, width, height, format]
    numCreated,         \* number of Texture::create2D calls so far
    mpFilterResultFbo,  \* colour target 0 of the filter-result FBO
    gTexSrv,            \* SRV bound in mpVars at mSrcTexLoc ("gTex")
    mpAdditiveBlend,    \* the blend state built by the constructor
    pFbo,               \* execute's argument: NoFbo or its colour texture 0
    pHighPassResult,    \* execute's local
    blurred,            \* NoBlur or [tex, rgb]: what the blur left in its target
    cmds,               \* work issued by the current execute call, in order
    fboStack,           \* GraphicsState's FBO stack (top = last)
    varsStack,          \* RenderContext's graphics-vars stack
    threshold,          \* mpFilter's threshold
    kernelWidth,        \* mpBlur's kernel width
    sigma,              \* mpBlur's sigma
    uiCalls             \* calls made by the current renderUI call, in order

vars == <<pc, mpLowResTexture, numCreated, mpFilterResultFbo, gTexSrv,
          mpAdditiveBlend, pFbo, pHighPassResult, blurred, cmds, fboStack,
          varsStack, threshold, kernelWidth, sigma, uiCalls>>

execVars == <<mpLowResTexture, numCreated, mpFilterResultFbo, gTexSrv,
              pFbo, pHighPassResult, blurred, cmds, fboStack, varsStack>>
uiVars == <<threshold, kernelWidth, sigma>>

Max(a, b) == IF a >= b THEN a ELSE b

\* ------------------------------------------------------------ constructor
\* Variant: the usual alpha blend instead of the additive one.
AdditiveBlendDesc_alphaBlend ==
    [rtBlend0 |-> TRUE,
     rgbBlendOp |-> "Add", alphaBlendOp |-> "Add",
     srcRgbFunc |-> "SrcAlpha", dstRgbFunc |-> "OneMinusSrcAlpha",
     srcAlphaFunc |-> "One", dstAlphaFunc |-> "Zero"]

\* BlendState::Desc of the constructor: setRtBlend(0, true) and
\* setRtParams(0, Add, Add, One, One, SrcAlpha, OneMinusSrcAlpha).
AdditiveBlendDesc ==
    [rtBlend0 |-> TRUE,
     rgbBlendOp |-> "Add", alphaBlendOp |-> "Add",
     srcRgbFunc |-> "One", dstRgbFunc |-> "One",
     srcAlphaFunc |-> "SrcAlpha", dstAlphaFunc |-> "OneMinusSrcAlpha"]

Init ==
    /\ pc = "idle"
    /\ mpLowResTexture = NoTexture
    /\ numCreated = 0
    /\ mpFilterResultFbo = Null
    /\ gTexSrv = Null
    /\ mpAdditiveBlend = AdditiveBlendDesc
    /\ pFbo = NoFbo
    /\ pHighPassResult = Null
    /\ blurred = NoBlur
    /\ cmds = <<>>
    /\ fboStack = <<"default">>
    /\ varsStack = <<>>
    /\ threshold \in UiVals
    /\ kernelWidth \in UiVals
    /\ sigma \in UiVals
    /\ uiCalls = <<>>

\* ---------------------------------------------------- updateLowResTexture
\* uint32_t lowResHeight = max(pTexture->getHeight() / 4, 256u);
LowResHeight(h) == Max(h \div DownScale, MinLowRes)

\* Variant: the aspect ratio taken as height / width.
LowResWidth_invertedAspect(w, h) ==
    Max(w \div DownScale, (MinLowRes * h) \div w)

\* float aspectRatio = (float)width / (float)height;
\* uint32_t lowResWidth = max(width / 4, (uint32_t)(256.0f * aspectRatio));
\* For the texture sizes a device accepts (below 65536) the float product
\* truncates to the same integer as the exact quotient.
LowResWidth(w, h) == Max(w \div DownScale, (MinLowRes * w) \div h)

\* Variant: the held texture compared with the input's own size.
NeedCreate_inputSize(held, w, h, fmt) ==
    \/ held = NoTexture
    \/ /\ held # NoTexture
       /\ \/ w # held.width
          \/ h # held.height
          \/ fmt # held.format

\* Variant: the format is not compared.
NeedCreate_noFormat(held, w, h, fmt) ==
    \/ held = NoTexture
    \/ /\ held # NoTexture
       /\ \/ LowResWidth(w, h) # held.width
          \/ LowResHeight(h) # held.height

\* bool createFbo: no texture yet, or width, height or format differ.
NeedCreate(held, w, h, fmt) ==
    \/ held = NoTexture
    \/ /\ held # NoTexture
       /\ \/ LowResWidth(w, h) # held.width
          \/ LowResHeight(h) # held.height
          \/ fmt # held.format

\* The texture held after updateLowResTexture(pTexture).
UpdatedLowRes(held, n, w, h, fmt) ==
    IF NeedCreate(held, w, h, fmt)
    THEN [id |-> n + 1, width |-> LowResWidth(w, h),
          height |-> LowResHeight(h), format |-> fmt]
    ELSE held

Cmd(op, src, dst, info) == [op |-> op, src |-> src, dst |-> dst, info |-> info]

\* ---------------------------------------------------------------- execute
\* updateLowResTexture(pFbo->getColorTexture(0));
Execute_updateLowResTexture ==
    /\ pc = "idle"
    /\ \E w \in Widths, h \in Heights, fmt \in Formats, c \in 0..MaxColor :
         LET create == NeedCreate(mpLowResTexture, w, h, fmt) IN
         /\ create => numCreated < MaxCreated
         /\ pFbo' = [width |-> w, height |-> h, format |-> fmt, rgb |-> c]
         /\ mpLowResTexture' = UpdatedLowRes(mpLowResTexture, numCreated, w, h, fmt)
         /\ numCreated' = IF create THEN numCreated + 1 ELSE numCreated
         /\ cmds' = <<Cmd("updateLowResTexture", pFbo', mpLowResTexture',
                            [create |-> create, before |-> mpLowResTexture])>>
    /\ pc' = "blit"
    /\ UNCHANGED <<mpFilterResultFbo, gTexSrv, mpAdditiveBlend, pHighPassResult,
                   blurred, fboStack, varsStack, uiVars, uiCalls>>

\* Variant: the frame is downsampled only into a newly created texture.
Execute_blit_onlyWhenCreated ==
    /\ pc = "blit"
    /\ cmds' = IF cmds[1].info.create
               THEN Append(cmds, Cmd("blit", pFbo, mpLowResTexture, Null))
               ELSE cmds
    /\ pc' = "filter"
    /\ UNCHANGED <<mpLowResTexture, numCreated, mpFilterResultFbo, gTexSrv,
                   mpAdditiveBlend, pFbo, pHighPassResult, blurred, fboStack,
                   varsStack, uiVars, uiCalls>>

\* pRenderContext->blit(pFbo->getColorTexture(0)->getSRV(), mpLowResTexture->getRTV());
Execute_blit ==
    /\ pc = "blit"
    /\ cmds' = Append(cmds, Cmd("blit", pFbo, mpLowResTexture, Null))
    /\ pc' = "filter"
    /\ UNCHANGED <<mpLowResTexture, numCreated, mpFilterResultFbo, gTexSrv,
                   mpAdditiveBlend, pFbo, pHighPassResult, blurred, fboStack,
                   varsStack, uiVars, uiCalls>>

\* Texture::SharedPtr pHighPassResult = mpFilter->execute(pRenderContext, mpLowResTexture);
Execute_filter ==
    /\ pc = "filter"
    /\ \E t \in FilterTextures :
         /\ pHighPassResult' = t
         /\ cmds' = Append(cmds, Cmd("filter", mpLowResTexture, t, threshold))
    /\ pc' = "attach"
    /\ UNCHANGED <<mpLowResTexture, numCreated, mpFilterResultFbo, gTexSrv,
                   mpAdditiveBlend, pFbo, blurred, fboStack, varsStack,
                   uiVars, uiCalls>>

\* Variant: the result is attached only while the FBO has no colour target.
Execute_attachColorTarget_once ==
    /\ pc = "attach"
    /\ mpFilterResultFbo' = IF mpFilterResultFbo = Null THEN pHighPassResult
                            ELSE mpFilterResultFbo
    /\ pc' = "blur"
    /\ UNCHANGED <<mpLowResTexture, numCreated, gTexSrv, mpAdditiveBlend, pFbo,
                   pHighPassResult, blurred, cmds, fboStack, varsStack,
                   uiVars, uiCalls>>

\* mpFilterResultFbo->attachColorTarget(pHighPassResult, 0);
Execute_attachColorTarget ==
    /\ pc = "attach"
    /\ mpFilterResultFbo' = pHighPassResult
    /\ pc' = "blur"
    /\ UNCHANGED <<mpLowResTexture, numCreated, gTexSrv, mpAdditiveBlend, pFbo,
                   pHighPassResult, blurred, cmds, fboStack, varsStack,
                   uiVars, uiCalls>>

\* mpBlur->execute(pRenderContext, pHighPassResult, mpFilterResultFbo);
Execute_blur ==
    /\ pc = "blur"
    /\ \E c \in 0..MaxColor :
         blurred' = [tex |-> mpFilterResultFbo, rgb |-> c]
    /\ cmds' = Append(cmds, Cmd("blur", pHighPassResult, mpFilterResultFbo,
                                <<kernelWidth, sigma>>))
    /\ pc' = "setSrv"
    /\ UNCHANGED <<mpLowResTexture, numCreated, mpFilterResultFbo, gTexSrv,
                   mpAdditiveBlend, pFbo, pHighPassResult, fboStack, varsStack,
                   uiVars, uiCalls>>

\* mpVars->getDefaultBlock()->setSrv(mSrcTexLoc, 0, pHighPassResult->getSRV());
Execute_setSrv ==
    /\ pc = "setSrv"
    /\ gTexSrv' = pHighPassResult
    /\ pc' = "pushFbo"
    /\ UNCHANGED <<mpLowResTexture, numCreated, mpFilterResultFbo,
                   mpAdditiveBlend, pFbo, pHighPassResult, blurred, cmds,
                   fboStack, varsStack, uiVars, uiCalls>>

\* pState->pushFbo(pFbo);
Execute_pushFbo ==
    /\ pc = "pushFbo"
    /\ fboStack' = Append(fboStack, "pFbo")
    /\ pc' = "pushVars"
    /\ UNCHANGED <<mpLowResTexture, numCreated, mpFilterResultFbo, gTexSrv,
                   mpAdditiveBlend, pFbo, pHighPassResult, blurred, cmds,
                   varsStack, uiVars, uiCalls>>

\* pRenderContext->pushGraphicsVars(mpVars);
Execute_pushGraphicsVars ==
    /\ pc = "pushVars"
    /\ varsStack' = Append(varsStack, "mpVars")
    /\ pc' = "blitPass"
    /\ UNCHANGED <<mpLowResTexture, numCreated, mpFilterResultFbo, gTexSrv,
                   mpAdditiveBlend, pFbo, pHighPassResult, blurred, cmds,
                   fboStack, uiVars, uiCalls>>

\* The blend equation of the output merger for the colour channels:
\* disabled blending writes the source, otherwise op(src * sf, dst * df).
BlendFactor(func) == IF func = "One" THEN 1 ELSE 0
BlendRgb(desc, src, dst) ==
    IF ~desc.rtBlend0 THEN src
    ELSE LET s == src * BlendFactor(desc.srcRgbFunc)
             d == dst * BlendFactor(desc.dstRgbFunc)
         IN  IF desc.rgbBlendOp = "Add" THEN s + d ELSE s - d

\* mpBlitPass->execute(pRenderContext, nullptr, mpAdditiveBlend);
\* The blit shader outputs the texel of the texture bound at gTex; a texture
\* other than the one just blurred holds contents this call did not write.
Execute_blitPass ==
    /\ pc = "blitPass"
    /\ \E s \in 0..MaxColor :
         /\ (gTexSrv = blurred.tex) => s = blurred.rgb
         /\ cmds' = Append(cmds, Cmd("blitPass", [tex |-> gTexSrv, rgb |-> s],
                                     fboStack[Len(fboStack)],
                                     [blend |-> mpAdditiveBlend, before |-> pFbo.rgb]))
         /\ pFbo' = IF fboStack[Len(fboStack)] = "pFbo"
                    THEN [pFbo EXCEPT !.rgb = BlendRgb(mpAdditiveBlend, s, pFbo.rgb)]
                    ELSE pFbo
    /\ pc' = "pop"
    /\ UNCHANGED <<mpLowResTexture, numCreated, mpFilterResultFbo, gTexSrv,
                   mpAdditiveBlend, pHighPassResult, blurred, fboStack,
                   varsStack, uiVars, uiCalls>>

\* pRenderContext->popGraphicsVars(); pState->popFbo();
Execute_pop ==
    /\ pc = "pop"
    /\ varsStack' = SubSeq(varsStack, 1, Len(varsStack) - 1)
    /\ fboStack' = SubSeq(fboStack, 1, Len(fboStack) - 1)
    /\ pc' = "return"
    /\ UNCHANGED <<mpLowResTexture, numCreated, mpFilterResultFbo, gTexSrv,
                   mpAdditiveBlend, pFbo, pHighPassResult, blurred, cmds,
                   uiVars, uiCalls>>

\* execute returns: its argument and locals go out of scope.
Execute_return ==
    /\ pc = "return"
    /\ pFbo' = NoFbo
    /\ pHighPassResult' = Null
    /\ blurred' = NoBlur
    /\ cmds' = <<>>
    /\ pc' = "idle"
    /\ UNCHANGED <<mpLowResTexture, numCreated, mpFilterResultFbo, gTexSrv,
                   mpAdditiveBlend, fboStack, varsStack, uiVars, uiCalls>>

\* --------------------------------------------------------------- renderUI
\* What a Gui widget can answer for a variable holding `old`: unchanged, or
\* changed to a value it produced.  An answer is <<changed, value>>.
WidgetAnswers(old) == {<<FALSE, old>>} \cup ({TRUE} \X UiVals)

\* One widget of renderUI: read the parameter, add the widget, and set the
\* parameter if the widget reported a change.  w = <<changed, value>>.
Widget(get, add, set, w) ==
    <<<<get, Null>>, <<add, Null>>>> \o
    (IF w[1] THEN <<<<set, w[2]>>>> ELSE <<>>)

\* Variant: endGroup is called without testing uiGroup.
RenderUICalls_alwaysEndGroup(uiGroup, beginRet, thr, kw, sg) ==
    LET begin == IF uiGroup = Null THEN <<>> ELSE <<<<"beginGroup", uiGroup>>>>
    IN  IF uiGroup = Null \/ beginRet
        THEN begin
             \o Widget("getThreshold", "addFloatVar:Threshold", "setThreshold", thr)
             \o Widget("getKernelWidth", "addIntVar:Kernel Width", "setKernelWidth", kw)
             \o Widget("getSigma", "addFloatVar:Sigma", "setSigma", sg)
             \o <<<<"endGroup", Null>>>>
        ELSE begin

RenderUICalls(uiGroup, beginRet, thr, kw, sg) ==
    LET begin == IF uiGroup = Null THEN <<>> ELSE <<<<"beginGroup", uiGroup>>>>
    IN  IF uiGroup = Null \/ beginRet
        THEN begin
             \o Widget("getThreshold", "addFloatVar:Threshold", "setThreshold", thr)
             \o Widget("getKernelWidth", "addIntVar:Kernel Width", "setKernelWidth", kw)
             \o Widget("getSigma", "addFloatVar:Sigma", "setSigma", sg)
             \o (IF uiGroup # Null THEN <<<<"endGroup", Null>>>> ELSE <<>>)
        ELSE begin

\* The last value passed to setter `set`, or `old` if it was not called.
ValueSet(calls, set, old) ==
    LET idx == {i \in 1..Len(calls) : calls[i][1] = set}
    IN  IF idx = {} THEN old ELSE calls[CHOOSE i \in idx : \A j \in idx : j <= i][2]

RenderUI ==
    /\ pc = "idle"
    /\ \E uiGroup \in UiGroups, beginRet \in BOOLEAN,
          thr \in WidgetAnswers(threshold), kw \in WidgetAnswers(kernelWidth),
          sg \in WidgetAnswers(sigma) :
         /\ uiCalls' = <<<<"renderUI", <<uiGroup, beginRet, thr, kw, sg>>>>>>
                        \o RenderUICalls(uiGroup, beginRet, thr, kw, sg)
         /\ threshold' = ValueSet(uiCalls', "setThreshold", threshold)
         /\ kernelWidth' = ValueSet(uiCalls', "setKernelWidth", kernelWidth)
         /\ sigma' = ValueSet(uiCalls', "setSigma", sigma)
    /\ pc' = "uiReturn"
    /\ UNCHANGED <<execVars, mpAdditiveBlend>>

\* renderUI returns.
RenderUI_return ==
    /\ pc = "uiReturn"
    /\ uiCalls' = <<>>
    /\ pc' = "idle"
    /\ UNCHANGED <<execVars, mpAdditiveBlend, uiVars>>

Next ==
    \/ Execute_updateLowResTexture
    \/ Execute_blit
    \/ Execute_filter
    \/ Execute_attachColorTarget
    \/ Execute_blur
    \/ Execute_setSrv
    \/ Execute_pushFbo
    \/ Execute_pushGraphicsVars
    \/ Execute_blitPass
    \/ Execute_pop
    \/ Execute_return
    \/ RenderUI
    \/ RenderUI_return

Spec == Init /\ [][Next]_vars

\* ================================================================ claims
\* Positions of execute at which the n-th piece of work has been issued.
AfterUpdate == {"blit", "filter", "attach", "blur", "setSrv", "pushFbo",
                "pushVars", "blitPass", "pop", "return"}
AfterBlur == {"setSrv", "pushFbo", "pushVars", "blitPass", "pop", "return"}
AfterBlitPass == {"pop", "return"}

CmdOps == [i \in 1..Len(cmds) |-> cmds[i].op]
ExecuteOrder == <<"updateLowResTexture", "blit", "filter", "blur", "blitPass">>
SameTexture(a, b) ==
    a.width = b.width /\ a.height = b.height /\ a.format = b.format

\* C1: every execute call issues its work in the fixed order update, blit of
\* pFbo's colour texture 0 into the low-res texture, high-pass filter on the
\* low-res texture, blur on the filter's result, additive full-screen blit
\* onto pFbo; nothing is skipped, repeated or reordered, whether or not the
\* low-res texture was re-created in the call.
C1_FixedOrder ==
    /\ Len(cmds) <= Len(ExecuteOrder)
    /\ CmdOps = SubSeq(ExecuteOrder, 1, Len(cmds))
    /\ (pc = "idle" \/ pc = "uiReturn") => cmds = <<>>
    /\ pc = "blit" => Len(cmds) = 1
    /\ pc = "filter" => Len(cmds) = 2
    /\ pc \in {"attach", "blur"} => Len(cmds) = 3
    /\ pc \in {"setSrv", "pushFbo", "pushVars", "blitPass"} => Len(cmds) = 4
    /\ pc \in AfterBlitPass => Len(cmds) = 5
    /\ Len(cmds) >= 2 =>
          /\ SameTexture(cmds[2].src, cmds[1].src)
          /\ cmds[2].dst = cmds[1].dst
    /\ Len(cmds) >= 3 => cmds[3].src = cmds[2].dst
    /\ Len(cmds) >= 4 => cmds[4].src = cmds[3].dst
    /\ Len(cmds) >= 5 =>
          /\ cmds[5].dst = "pFbo"
          /\ cmds[5].info.blend = mpAdditiveBlend

\* C1 witness: a complete call that kept the texture of an earlier call.
C1_Witness ==
    /\ pc = "return"
    /\ CmdOps = ExecuteOrder
    /\ ~cmds[1].info.create
    /\ numCreated >= 1

\* The update step of the current call, when a texture was already held.
HeldBefore == cmds[1].info.before
UpdatedAHeldTexture == pc \in AfterUpdate /\ HeldBefore # NoTexture

\* C2 (as stated): once a texture exists, execute replaces it only if the
\* derived low-res width or height differs from the held texture's, and
\* keeps the same object when both are equal.
C2_OnlyDimensions ==
    UpdatedAHeldTexture =>
        (mpLowResTexture.id # HeldBefore.id
            <=> \/ Max(pFbo.width \div 4, (256 * pFbo.width) \div pFbo.height)
                      # HeldBefore.width
                \/ Max(pFbo.height \div 4, 256) # HeldBefore.height)

\* C2 (amended): once a texture exists, execute replaces it exactly when the
\* derived low-res width or height, or the input's format, differs from the
\* held texture's; otherwise the same object is kept.
C2_DimensionsOrFormat ==
    UpdatedAHeldTexture =>
        /\ (mpLowResTexture.id # HeldBefore.id
              <=> \/ Max(pFbo.width \div 4, (256 * pFbo.width) \div pFbo.height)
                        # HeldBefore.width
                  \/ Max(pFbo.height \div 4, 256) # HeldBefore.height
                  \/ pFbo.format # HeldBefore.format)
        /\ mpLowResTexture.id = HeldBefore.id => mpLowResTexture = HeldBefore
        /\ mpLowResTexture.id # HeldBefore.id => mpLowResTexture.id = numCreated

\* C2 witness: a texture replaced although both dimensions are unchanged.
C2_Witness ==
    /\ UpdatedAHeldTexture
    /\ mpLowResTexture.id # HeldBefore.id
    /\ mpLowResTexture.width = HeldBefore.width
    /\ mpLowResTexture.height = HeldBefore.height
    /\ mpLowResTexture.format # HeldBefore.format

C4_NeverLarger ==
    pc \in AfterUpdate =>
        /\ mpLowResTexture.width <= pFbo.width
        /\ mpLowResTexture.height <= pFbo.height

\* C4 (amended): for every input of width W >= 1 and height H >= 256 the
\* low-res texture is at most W wide and at most H high.
C4_NeverLargerFrom256 ==
    (pc \in AfterUpdate /\ pFbo.width >= 1 /\ pFbo.height >= 256) =>
        /\ mpLowResTexture.width <= pFbo.width
        /\ mpLowResTexture.height <= pFbo.height

\* C4 witness: a frame above the minimum size got a strictly smaller texture.
C4_Witness ==
    /\ pc = "filter"
    /\ pFbo.height > 256
    /\ mpLowResTexture.height < pFbo.height
    /\ mpLowResTexture.width < pFbo.width

\* C5: after updateLowResTexture the held texture is non-null and has height
\* max(H div 4, 256), width max(W div 4, floor(256 * W / H)) and the input's
\* format, in the first call and in every later one; the texture the blit
\* targets is that texture.
C5_MatchesInput ==
    pc \in AfterUpdate =>
        /\ mpLowResTexture # NoTexture
        /\ mpLowResTexture.id >= 1
        /\ mpLowResTexture.height = Max(pFbo.height \div 4, 256)
        /\ mpLowResTexture.width =
              Max(pFbo.width \div 4, (256 * pFbo.width) \div pFbo.height)
        /\ mpLowResTexture.format = pFbo.format
        /\ Len(cmds) >= 2 => cmds[2].dst = mpLowResTexture

\* C5 witness: the blit was issued in a call whose input differs in format
\* only from the input the held texture was created for.
C5_Witness ==
    /\ pc = "filter"
    /\ HeldBefore # NoTexture
    /\ HeldBefore.format # pFbo.format
    /\ HeldBefore.width = mpLowResTexture.width
    /\ HeldBefore.height = mpLowResTexture.height

\* The textures the blur and the blit pass of the current call were given.
C6_State ==
    /\ pc \in AfterBlur =>
          /\ cmds[4].src = cmds[3].dst
          /\ cmds[4].dst = cmds[3].dst
          /\ blurred.tex = cmds[3].dst
          /\ pHighPassResult = cmds[3].dst
    /\ pc \in {"pushFbo", "pushVars", "blitPass"} =>
          /\ gTexSrv = cmds[3].dst
          /\ Len(cmds) = 4
    /\ pc \in AfterBlitPass => cmds[5].src.tex = cmds[3].dst
\* gTex is rebound only by the statement that follows the blur.
C6_Step ==
    gTexSrv' # gTexSrv =>
        /\ pc = "setSrv"
        /\ cmds[Len(cmds)].op = "blur"
        /\ gTexSrv' = cmds[3].dst
        /\ cmds' = cmds
\* C6: when the blur is invoked, colour target 0 of the filter-result FBO is
\* the texture the filter returned in this call and is the blur's source; the
\* SRV at gTex is set to that texture after the blur and before the additive
\* blit pass, which samples it.
C6_FreshHighPass == []C6_State /\ [][C6_Step]_vars

\* C6 witness: the blur has run on this call's texture while gTex still
\* holds the texture of an earlier call.
C6_Witness ==
    /\ pc = "setSrv"
    /\ gTexSrv # Null
    /\ gTexSrv # pHighPassResult
    /\ cmds[4].src = pHighPassResult

\* The Gui's answers in the current renderUI call.
UiArgs == uiCalls[1][2]
UiShown == UiArgs[1] = Null \/ UiArgs[2]
UiCount(name) == Cardinality({i \in 1..Len(uiCalls) : uiCalls[i][1] = name})
UiHas(name, v) == \E i \in 1..Len(uiCalls) : uiCalls[i] = <<name, v>>
UiSetOnlyIfChanged(add, set, w) ==
    /\ UiCount(set) = (IF UiShown /\ w[1] THEN 1 ELSE 0)
    /\ UiCount(set) = 1 => UiHas(set, w[2])
    /\ UiCount(add) = (IF UiShown THEN 1 ELSE 0)
    /\ \A i, j \in 1..Len(uiCalls) :
          (uiCalls[i][1] = set /\ uiCalls[j][1] = add) => j < i

\* The calls a finished renderUI body has made, against the Gui's answers.
C7_State ==
    pc = "uiReturn" =>
        /\ UiSetOnlyIfChanged("addFloatVar:Threshold", "setThreshold", UiArgs[3])
        /\ UiSetOnlyIfChanged("addIntVar:Kernel Width", "setKernelWidth", UiArgs[4])
        /\ UiSetOnlyIfChanged("addFloatVar:Sigma", "setSigma", UiArgs[5])
        /\ (UiShown /\ UiArgs[3][1]) => threshold = UiArgs[3][2]
        /\ (UiShown /\ UiArgs[4][1]) => kernelWidth = UiArgs[4][2]
        /\ (UiShown /\ UiArgs[5][1]) => sigma = UiArgs[5][2]
        /\ ~UiShown => Len(uiCalls) = 2 /\ uiCalls[2][1] = "beginGroup"
        /\ UiCount("getThreshold") = (IF UiShown THEN 1 ELSE 0)
        /\ UiCount("getKernelWidth") = (IF UiShown THEN 1 ELSE 0)
        /\ UiCount("getSigma") = (IF UiShown THEN 1 ELSE 0)
        /\ UiCount("beginGroup") = (IF UiArgs[1] # Null THEN 1 ELSE 0)
        /\ UiCount("endGroup") = (IF UiArgs[1] # Null /\ UiArgs[2] THEN 1 ELSE 0)
        /\ UiCount("endGroup") = 1 => uiCalls[Len(uiCalls)][1] = "endGroup"
\* A parameter changes only in a renderUI call that called its setter.
C7_Step ==
    /\ threshold' # threshold => UiCount("setThreshold")' = 1
    /\ kernelWidth' # kernelWidth => UiCount("setKernelWidth")' = 1
    /\ sigma' # sigma => UiCount("setSigma")' = 1
\* C7: renderUI sets a parameter only if its widget returned true, with the
\* widget's value; with a group whose beginGroup returns false nothing is
\* added, read or set; endGroup is called exactly once when a group was
\* begun and never without a group.
C7_RenderUI == []C7_State /\ [][C7_Step]_vars

\* C7 witness: a begun group in which two widgets changed and one did not.
C7_Witness ==
    /\ pc = "uiReturn"
    /\ UiArgs[1] # Null /\ UiArgs[2]
    /\ UiArgs[3][1] /\ ~UiArgs[4][1] /\ UiArgs[5][1]
    /\ UiArgs[3][2] = threshold
    /\ UiCount("endGroup") = 1
    /\ UiCount("setKernelWidth") = 0
====
